---- MODULE Spec2Model ----
(***************************************************************************)
(* A model of myfs.c: a block-structured virtual filesystem kept in one    *)
(* host file, with an inode bitmap, a data-block bitmap, an inode table    *)
(* and a data region, driven by one command per input line.                *)
(*                                                                         *)
(* The geometry is scaled down so that the state space is finite and       *)
(* small.  A block holds BLOCK_SIZE units.  A DirectoryEntry occupies      *)
(* SIZEOF_DirectoryEntry = 2 units: the first unit holds the whole name    *)
(* field (the NUL-terminated string packed little-endian into one number,  *)
(* so the unit is 0 modulo 256 exactly when name[0] is NUL), the second    *)
(* holds inode_number.  A file byte occupies one unit.  The 32-bit         *)
(* unsigned fields wrap modulo UintMod.  Timestamps are left out: no       *)
(* operation reads them.                                                   *)
(***************************************************************************)
EXTENDS Integers, Sequences, FiniteSets, TLC

\* ---------------------------------------------------------------- geometry
BLOCK_SIZE == 4
INODE_DIRECT_POINTERS == 3
MAX_FILENAME_LEN == 2
ROOT_INODE_NUM == 0
MAX_PATH_DEPTH == 64
SIZEOF_DirectoryEntry == 2
\* sb.num_inodes and sb.num_data_blocks as do_mkfs leaves them
num_inodes == 4
num_data_blocks == 4
\* the number of command lines read from stdin
MaxCmds == 3

UintMod == 256 * 256
UNUSED_BLOCK == UintMod - 1
MaxFileSize == INODE_DIRECT_POINTERS * BLOCK_SIZE
entries_per_block == BLOCK_SIZE \div SIZEOF_DirectoryEntry

InodeNums == 0 .. (num_inodes - 1)
BlockNums == 0 .. (num_data_blocks - 1)
PtrIdx == 0 .. (INODE_DIRECT_POINTERS - 1)
Units == 0 .. (BLOCK_SIZE - 1)
Slots == 0 .. (entries_per_block - 1)

Min(a, b) == IF a < b THEN a ELSE b

\* ------------------------------------------------------------ path strings
\* A path is a sequence of one-character strings.
Chars == {"/", ".", "a", "b", "c"}

CharCode(c) ==
    CASE c = "/" -> 47
      [] c = "." -> 46
      [] c = "a" -> 97
      [] c = "b" -> 98
      [] c = "c" -> 99
      [] OTHER -> 63

\* The character printf("%s") shows for a byte of a name; "?" stands for
\* every byte that is not one of Chars.
CharOf(code) ==
    CASE code = 47 -> "/"
      [] code = 46 -> "."
      [] code = 97 -> "a"
      [] code = 98 -> "b"
      [] code = 99 -> "c"
      [] OTHER -> "?"

\* The bytes of a NUL-terminated string as one little-endian number.
RECURSIVE Pack(_)
Pack(s) == IF s = <<>> THEN 0 ELSE CharCode(Head(s)) + 256 * Pack(Tail(s))

\* strcpy(name_buffer, de[j].name): the characters of a name field up to its
\* first NUL.
RECURSIVE Unpack(_)
Unpack(u) ==
    IF u % 256 = 0 THEN <<>> ELSE <<CharOf(u % 256)>> \o Unpack(u \div 256)

\* strncpy(new_entry.name, name, MAX_FILENAME_LEN); name[MAX_FILENAME_LEN] = 0
StoredName(name) == Pack(SubSeq(name, 1, Min(Len(name), MAX_FILENAME_LEN)))

\* de[j].name[0] == '\0'
NameIsNul(u) == u % 256 = 0

\* Index of the last "/" of s among positions 1..n, 0 when there is none.
RECURSIVE LastSlash(_, _)
LastSlash(s, n) ==
    IF n = 0 THEN 0
    ELSE IF s[n] = "/" THEN n ELSE LastSlash(s, n - 1)

\* Walk left from position p while the character before it is "/".
RECURSIVE SkipSlashesLeft(_, _)
SkipSlashesLeft(s, p) ==
    IF p > 1 /\ s[p - 1] = "/" THEN SkipSlashesLeft(s, p - 1) ELSE p

\* Walk left from position p while the character before it is not "/".
RECURSIVE SkipNameLeft(_, _)
SkipNameLeft(s, p) ==
    IF p > 1 /\ s[p - 1] # "/" THEN SkipNameLeft(s, p - 1) ELSE p

\* dirname(3) as glibc computes it, on a non-empty path.
dirname(path) ==
    LET n == Len(path)
        ls0 == LastSlash(path, n)
        ls1 == IF ls0 # 0 /\ ls0 # 1 /\ ls0 = n
               THEN LET runp == SkipSlashesLeft(path, ls0)
                    IN IF runp # 1 THEN LastSlash(path, runp - 1) ELSE ls0
               ELSE ls0
    IN IF ls1 = 0 THEN <<".">>
       ELSE LET runp == SkipSlashesLeft(path, ls1)
                cut == IF runp = 1
                       THEN (IF ls1 = 2 THEN 3 ELSE 2)
                       ELSE runp
            IN SubSeq(path, 1, cut - 1)

\* basename(3) of <libgen.h> (__xpg_basename), on a non-empty path.
basename(path) ==
    LET n == Len(path)
        p == LastSlash(path, n)
    IN IF p = 0 THEN path
       ELSE IF p < n THEN SubSeq(path, p + 1, n)
       ELSE LET q == SkipSlashesLeft(path, p)
            IN IF q > 1
               THEN SubSeq(path, SkipNameLeft(path, q - 1), q - 1)
               ELSE <<"/">>

\* strtok_r(rest, "/", &rest): the next token and what is left after it,
\* tok = <<>> standing for NULL.
RECURSIVE SkipDelims(_)
SkipDelims(s) == IF s # <<>> /\ Head(s) = "/" THEN SkipDelims(Tail(s)) ELSE s

RECURSIVE TokenLen(_)
TokenLen(s) == IF s = <<>> \/ Head(s) = "/" THEN 0 ELSE 1 + TokenLen(Tail(s))

strtok_r(s) ==
    LET t == SkipDelims(s)
        k == TokenLen(t)
    IN [tok  |-> SubSeq(t, 1, k),
        rest |-> IF k < Len(t) THEN SubSeq(t, k + 2, Len(t)) ELSE <<>>]

\* ------------------------------------------------------------------ state
VARIABLES
    inode_bitmap,        \* the in-memory inode bitmap
    data_block_bitmap,   \* the in-memory data-block bitmap
    disk_inode_bitmap,   \* block sb.inode_bitmap_block of the disk
    disk_data_bitmap,    \* block sb.data_bitmap_block of the disk
    inodes,              \* the inode table of the disk
    blocks,              \* the data region of the disk
    cwd,                 \* current_working_directory_inode
    host_file,           \* the host file cp-from wrote last
    ncmds,               \* command lines read so far
    mkfs_images          \* what each run of do_mkfs wrote to its fresh disk

vars == <<inode_bitmap, data_block_bitmap, disk_inode_bitmap, disk_data_bitmap,
          inodes, blocks, cwd, host_file, ncmds, mkfs_images>>

\* The filesystem as one value, so that every operation is a function of it.
St == [inode_bitmap      |-> inode_bitmap,
       data_block_bitmap |-> data_block_bitmap,
       disk_inode_bitmap |-> disk_inode_bitmap,
       disk_data_bitmap  |-> disk_data_bitmap,
       inodes            |-> inodes,
       blocks            |-> blocks,
       cwd               |-> cwd]

ZeroBlock == [u \in Units |-> 0]

\* An inode record of a disk region that was never written (ftruncate zeros).
ZeroInode == [mode |-> 0, size |-> 0, link_count |-> 0,
              direct_blocks |-> [i \in PtrIdx |-> 0]]

NoBlocks == [i \in PtrIdx |-> UNUSED_BLOCK]

\* What one command returns: the state it leaves and the lines it printed.
R(s, msgs) == [st |-> s, out |-> msgs]

\* -------------------------------------------------------------- low level
get_bit(bitmap, n) == bitmap[n]
set_bit(bitmap, n) == [bitmap EXCEPT ![n] = TRUE]
clear_bit(bitmap, n) == [bitmap EXCEPT ![n] = FALSE]

read_block(s, b) == s.blocks[b]
write_block(s, b, buf) == [s EXCEPT !.blocks[b] = buf]
read_inode(s, n) == s.inodes[n]
write_inode(s, n, ino) == [s EXCEPT !.inodes[n] = ino]

sync_bitmaps(s) ==
    [s EXCEPT !.disk_inode_bitmap = s.inode_bitmap,
              !.disk_data_bitmap = s.data_block_bitmap]

\* The scan run from the highest index down: the highest clear bit, or -1.
FirstClear_FromTheTop(bitmap, num) ==
    IF \E i \in 0 .. (num - 1) : ~bitmap[i]
    THEN CHOOSE i \in 0 .. (num - 1) :
            ~bitmap[i] /\ \A k \in (i + 1) .. (num - 1) : bitmap[k]
    ELSE -1

\* The scan of alloc_inode and alloc_data_block: the lowest clear bit, or -1.
FirstClear(bitmap, num) ==
    IF \E i \in 0 .. (num - 1) : ~get_bit(bitmap, i)
    THEN CHOOSE i \in 0 .. (num - 1) :
            ~get_bit(bitmap, i) /\ \A k \in 0 .. (i - 1) : get_bit(bitmap, k)
    ELSE -1

alloc_inode(s) ==
    LET i == FirstClear(s.inode_bitmap, num_inodes)
    IN [st |-> IF i = -1 THEN s
               ELSE [s EXCEPT !.inode_bitmap = set_bit(@, i)],
        n  |-> i]

free_inode(s, n) == [s EXCEPT !.inode_bitmap = clear_bit(@, n)]

alloc_data_block(s) ==
    LET i == FirstClear(s.data_block_bitmap, num_data_blocks)
    IN [st |-> IF i = -1 THEN s
               ELSE [s EXCEPT !.data_block_bitmap = set_bit(@, i)],
        n  |-> i]

free_data_block(s, b) == [s EXCEPT !.data_block_bitmap = clear_bit(@, b)]

\* ------------------------------------------------------------ directories
EntryName(buf, j) == buf[j * SIZEOF_DirectoryEntry]
EntryInode(buf, j) == buf[j * SIZEOF_DirectoryEntry + SIZEOF_DirectoryEntry - 1]

\* memcpy(&de[j], &entry, sizeof(DirectoryEntry)) with the name field
\* holding nm and inode_number holding n; nm = 0, n = 0 is memset(.., 0, ..).
PutEntry(buf, j, nm, n) ==
    [u \in Units |->
        IF u \div SIZEOF_DirectoryEntry = j /\ u < entries_per_block * SIZEOF_DirectoryEntry
        THEN (IF u % SIZEOF_DirectoryEntry = 0 THEN nm
              ELSE IF u % SIZEOF_DirectoryEntry = SIZEOF_DirectoryEntry - 1 THEN n
              ELSE 0)
        ELSE buf[u]]

\* The loop shared by find_entry_in_dir, do_rm_entry, do_rmdir, do_ls and
\* find_name_for_inode, from linear slot k on: the live slots it visits, in
\* order.  It stops at the first UNUSED direct block and as soon as it has
\* seen total live slots.
RECURSIVE ScanDir(_, _, _, _, _)
ScanDir(s, ino, k, found, total) ==
    IF k >= INODE_DIRECT_POINTERS * entries_per_block THEN <<>>
    ELSE LET i == k \div entries_per_block
             j == k % entries_per_block
         IN IF ino.direct_blocks[i] = UNUSED_BLOCK \/ found >= total THEN <<>>
            ELSE LET buf == read_block(s, ino.direct_blocks[i])
                 IN IF ~NameIsNul(EntryName(buf, j))
                    THEN <<[i |-> i, j |-> j, name |-> EntryName(buf, j),
                            inode_number |-> EntryInode(buf, j)]>>
                         \o ScanDir(s, ino, k + 1, found + 1, total)
                    ELSE ScanDir(s, ino, k + 1, found, total)

VisibleEntries(s, ino) ==
    ScanDir(s, ino, 0, 0, ino.size \div SIZEOF_DirectoryEntry)

find_entry_in_dir(s, dir_inode_num, name) ==
    LET dir_inode == read_inode(s, dir_inode_num)
    IN IF dir_inode.mode # 1 THEN -1
       ELSE LET hits == SelectSeq(VisibleEntries(s, dir_inode),
                                  LAMBDA e : e.name = Pack(name))
            IN IF hits = <<>> THEN -1 ELSE hits[1].inode_number

\* The first slot of a block whose name starts with NUL, or -1.
FreeSlot(buf) ==
    IF \E j \in Slots : NameIsNul(EntryName(buf, j))
    THEN CHOOSE j \in Slots :
            NameIsNul(EntryName(buf, j))
            /\ \A k \in 0 .. (j - 1) : ~NameIsNul(EntryName(buf, k))
    ELSE -1

\* The body of add_entry_to_dir once slot j of direct block i is chosen.
InsertEntry(s, dir_inode_num, dir_inode, i, j, block_num, buf, name, new_inode_num) ==
    LET s1 == write_block(s, block_num,
                          PutEntry(buf, j, StoredName(name), new_inode_num))
        current_entry_offset == i * entries_per_block + j
        grown == IF current_entry_offset * SIZEOF_DirectoryEntry >= dir_inode.size
                 THEN (dir_inode.size + SIZEOF_DirectoryEntry) % UintMod
                 ELSE dir_inode.size
    IN write_inode(s1, dir_inode_num, [dir_inode EXCEPT !.size = grown])

RECURSIVE AddEntryFrom(_, _, _, _, _)
AddEntryFrom(s, dir_inode_num, name, new_inode_num, i) ==
    IF i >= INODE_DIRECT_POINTERS
    THEN R(s, <<"Error: Directory is full.">>)
    ELSE LET dir_inode == read_inode(s, dir_inode_num)
         IN IF dir_inode.direct_blocks[i] = UNUSED_BLOCK
            THEN LET a == alloc_data_block(s)
                 IN IF a.n = -1
                    THEN R(s, <<"Error: Out of data blocks.">>)
                    ELSE R(InsertEntry(a.st, dir_inode_num,
                                       [dir_inode EXCEPT !.direct_blocks[i] = a.n],
                                       i, 0, a.n, ZeroBlock, name, new_inode_num),
                           <<>>)
            ELSE LET buf == read_block(s, dir_inode.direct_blocks[i])
                     j == FreeSlot(buf)
                 IN IF j = -1
                    THEN AddEntryFrom(s, dir_inode_num, name, new_inode_num, i + 1)
                    ELSE R(InsertEntry(s, dir_inode_num, dir_inode, i, j,
                                       dir_inode.direct_blocks[i], buf,
                                       name, new_inode_num),
                           <<>>)

add_entry_to_dir(s, dir_inode_num, name, new_inode_num) ==
    AddEntryFrom(s, dir_inode_num, name, new_inode_num, 0)

\* ---------------------------------------------------------- path resolver
RECURSIVE Walk(_, _, _)
Walk(s, current_inode, rest) ==
    LET t == strtok_r(rest)
    IN IF t.tok = <<>> THEN current_inode
       ELSE LET next == find_entry_in_dir(s, current_inode, t.tok)
            IN IF next = -1 THEN -1
               ELSE IF read_inode(s, next).mode # 1 /\ t.rest # <<>> THEN -1
               ELSE Walk(s, next, t.rest)

get_path_inode(s, path) ==
    IF path = <<>> THEN -1
    ELSE IF path = <<".">> THEN s.cwd
    ELSE IF path = <<"/">> THEN ROOT_INODE_NUM
    ELSE IF Head(path) = "/" THEN Walk(s, ROOT_INODE_NUM, Tail(path))
    ELSE Walk(s, s.cwd, path)

\* --------------------------------------------------------------- commands
\* The block do_mkdir and do_mkfs write for a new directory: "." and "..".
NewDirBlock(self, parent) ==
    PutEntry(PutEntry(ZeroBlock, 0, Pack(<<".">>), self),
             1, Pack(<<".", ".">>), parent)

do_mkdir(s, path) ==
    LET child_name == basename(path)
        parent_inode_num == get_path_inode(s, dirname(path))
    IN IF parent_inode_num = -1
       THEN R(s, <<"Error: Parent directory not found.">>)
       ELSE IF find_entry_in_dir(s, parent_inode_num, child_name) # -1
       THEN R(s, <<"Error: Name already exists.">>)
       ELSE LET ai == alloc_inode(s)
            IN IF ai.n = -1 THEN R(s, <<"Error: Out of inodes.">>)
               ELSE LET ab == alloc_data_block(ai.st)
                    IN IF ab.n = -1
                       THEN R(free_inode(ai.st, ai.n),
                              <<"Error: Out of data blocks.">>)
                       ELSE LET new_inode ==
                                    [mode |-> 1,
                                     size |-> 2 * SIZEOF_DirectoryEntry,
                                     link_count |-> 2,
                                     direct_blocks |->
                                        [NoBlocks EXCEPT ![0] = ab.n]]
                                s1 == write_inode(ab.st, ai.n, new_inode)
                                s2 == write_block(s1, ab.n,
                                        NewDirBlock(ai.n, parent_inode_num))
                                r3 == add_entry_to_dir(s2, parent_inode_num,
                                                       child_name, ai.n)
                                parent_inode == read_inode(r3.st, parent_inode_num)
                                s4 == write_inode(r3.st, parent_inode_num,
                                        [parent_inode EXCEPT
                                           !.link_count = (@ + 1) % UintMod])
                            IN R(sync_bitmaps(s4),
                                 r3.out \o <<"Directory created">>)

\* Block i of a host file of file_size bytes, zero-padded.
FileBlock(data, i) ==
    [u \in Units |->
        IF i * BLOCK_SIZE + u + 1 <= Len(data)
        THEN data[i * BLOCK_SIZE + u + 1] ELSE 0]

\* The allocation loop of do_cp_to_vdisk from block i on; n = -1 when
\* alloc_data_block failed and the blocks allocated so far were freed.
RECURSIVE CopyBlocks(_, _, _, _)
CopyBlocks(s, new_inode, data, i) ==
    IF ~(i < INODE_DIRECT_POINTERS /\ Len(data) - i * BLOCK_SIZE > 0)
    THEN [st |-> s, inode |-> new_inode, n |-> 0]
    ELSE LET a == alloc_data_block(s)
         IN IF a.n = -1
            THEN [st |-> [s EXCEPT !.data_block_bitmap =
                            [b \in DOMAIN @ |->
                               IF \E j \in 0 .. (i - 1) :
                                     new_inode.direct_blocks[j] = b
                               THEN FALSE ELSE @[b]]],
                  inode |-> new_inode, n |-> -1]
            ELSE CopyBlocks(write_block(a.st, a.n, FileBlock(data, i)),
                            [new_inode EXCEPT !.direct_blocks[i] = a.n],
                            data, i + 1)

do_cp_to_vdisk(s, data, vdisk_path) ==
    LET file_size == Len(data)
        child_name == basename(vdisk_path)
        parent_inode_num == get_path_inode(s, dirname(vdisk_path))
    IN IF file_size > INODE_DIRECT_POINTERS * BLOCK_SIZE
       THEN R(s, <<"Error: File is too large for this simple filesystem.">>)
       ELSE IF parent_inode_num = -1
       THEN R(s, <<"Error: Parent directory not found.">>)
       ELSE IF find_entry_in_dir(s, parent_inode_num, child_name) # -1
       THEN R(s, <<"Error: Name already exists.">>)
       ELSE LET ai == alloc_inode(s)
            IN IF ai.n = -1 THEN R(s, <<"Error: Out of inodes.">>)
               ELSE LET c == CopyBlocks(ai.st,
                                [mode |-> 0, size |-> file_size % UintMod,
                                 link_count |-> 1, direct_blocks |-> NoBlocks],
                                data, 0)
                    IN IF c.n = -1
                       THEN R(sync_bitmaps(free_inode(c.st, ai.n)),
                              <<"Error: Out of data blocks during copy. Cleaning up.">>)
                       ELSE LET s1 == write_inode(c.st, ai.n, c.inode)
                                r2 == add_entry_to_dir(s1, parent_inode_num,
                                                       child_name, ai.n)
                            IN R(sync_bitmaps(r2.st), r2.out \o <<"Copied">>)

\* The export loop of do_cp_from_vdisk from block i on.
RECURSIVE ExportBlocks(_, _, _, _)
ExportBlocks(s, inode, i, bytes_left) ==
    IF ~(i < INODE_DIRECT_POINTERS /\ bytes_left > 0) THEN <<>>
    ELSE IF inode.direct_blocks[i] = UNUSED_BLOCK THEN <<>>
    ELSE LET buf == read_block(s, inode.direct_blocks[i])
             bytes_to_write == IF bytes_left > BLOCK_SIZE THEN BLOCK_SIZE
                               ELSE bytes_left
         IN [k \in 1 .. bytes_to_write |-> buf[k - 1]]
            \o ExportBlocks(s, inode, i + 1, bytes_left - bytes_to_write)

\* do_cp_from_vdisk changes nothing on the disk: data is what it writes to
\* the host file, written = FALSE when it leaves the host file alone.
do_cp_from_vdisk(s, vdisk_path) ==
    LET inode_num == get_path_inode(s, vdisk_path)
    IN IF inode_num = -1
       THEN [out |-> <<"Error: File not found on virtual disk.">>,
             written |-> FALSE, data |-> <<>>]
       ELSE LET inode == read_inode(s, inode_num)
            IN IF inode.mode # 0
               THEN [out |-> <<"Error: Not a file.">>,
                     written |-> FALSE, data |-> <<>>]
               ELSE [out |-> <<"Copied">>, written |-> TRUE,
                     data |-> ExportBlocks(s, inode, 0, inode.size)]

do_rm_entry(s, parent_inode_num, child_name) ==
    LET parent_inode == read_inode(s, parent_inode_num)
        hits == SelectSeq(VisibleEntries(s, parent_inode),
                          LAMBDA e : e.name = Pack(child_name))
    IN IF hits = <<>> THEN s
       ELSE LET b == parent_inode.direct_blocks[hits[1].i]
            IN write_block(s, b, PutEntry(read_block(s, b), hits[1].j, 0, 0))

\* free_data_block on every direct block of an inode that is not UNUSED_BLOCK
FreeDirectBlocks(s, inode) ==
    [s EXCEPT !.data_block_bitmap =
        [b \in DOMAIN @ |->
            IF \E i \in PtrIdx : inode.direct_blocks[i] = b THEN FALSE ELSE @[b]]]

do_rm(s, path) ==
    LET child_name == basename(path)
        parent_inode_num == get_path_inode(s, dirname(path))
    IN IF parent_inode_num = -1
       THEN R(s, <<"Error: Parent directory not found.">>)
       ELSE LET child_inode_num == find_entry_in_dir(s, parent_inode_num, child_name)
            IN IF child_inode_num = -1
               THEN R(s, <<"Error: File or link not found.">>)
               ELSE LET child_inode == read_inode(s, child_inode_num)
                    IN IF child_inode.mode = 1
                       THEN R(s, <<"Error: Cannot remove directory with 'rm'. Use 'rmdir'.">>)
                       ELSE LET s1 == do_rm_entry(s, parent_inode_num, child_name)
                                parent_inode == read_inode(s1, parent_inode_num)
                                s2 == write_inode(s1, parent_inode_num,
                                        [parent_inode EXCEPT !.size =
                                           (@ - SIZEOF_DirectoryEntry) % UintMod])
                                child2 == [child_inode EXCEPT !.link_count =
                                              (@ - 1) % UintMod]
                                s3 == write_inode(s2, child_inode_num, child2)
                                s4 == IF child2.link_count = 0
                                      THEN free_inode(FreeDirectBlocks(s3, child2),
                                                      child_inode_num)
                                      ELSE s3
                            IN R(sync_bitmaps(s4), <<"Removed">>)

do_rmdir(s, path) ==
    IF path = <<"/">> THEN R(s, <<"Error: Cannot remove root directory.">>)
    ELSE LET inode_num == get_path_inode(s, path)
         IN IF inode_num = -1 THEN R(s, <<"Error: Directory not found.">>)
            ELSE LET inode == read_inode(s, inode_num)
                 IN IF inode.mode # 1 THEN R(s, <<"Error: Not a directory.">>)
                    ELSE IF Len(VisibleEntries(s, inode)) > 2
                    THEN R(s, <<"Error: Directory not empty.">>)
                    ELSE LET parent_inode_num == get_path_inode(s, dirname(path))
                             s1 == do_rm_entry(s, parent_inode_num, basename(path))
                             parent_inode == read_inode(s1, parent_inode_num)
                             s2 == write_inode(s1, parent_inode_num,
                                     [parent_inode EXCEPT
                                        !.size = (@ - SIZEOF_DirectoryEntry) % UintMod,
                                        !.link_count = (@ - 1) % UintMod])
                             s3 == IF inode.direct_blocks[0] # UNUSED_BLOCK
                                   THEN free_data_block(s2, inode.direct_blocks[0])
                                   ELSE s2
                         IN R(sync_bitmaps(free_inode(s3, inode_num)),
                              <<"Removed directory">>)

do_ln(s, target_path, link_path) ==
    LET target_inode_num == get_path_inode(s, target_path)
    IN IF target_inode_num = -1 THEN R(s, <<"Error: Target does not exist.">>)
       ELSE LET target_inode == read_inode(s, target_inode_num)
                child_name == basename(link_path)
                parent_inode_num == get_path_inode(s, dirname(link_path))
            IN IF target_inode.mode = 1
               THEN R(s, <<"Error: Hard links to directories not supported.">>)
               ELSE IF parent_inode_num = -1
               THEN R(s, <<"Error: Parent directory for link not found.">>)
               ELSE IF find_entry_in_dir(s, parent_inode_num, child_name) # -1
               THEN R(s, <<"Error: Link name already exists.">>)
               ELSE LET r1 == add_entry_to_dir(s, parent_inode_num, child_name,
                                               target_inode_num)
                        s2 == write_inode(r1.st, target_inode_num,
                                [target_inode EXCEPT
                                   !.link_count = (@ + 1) % UintMod])
                    IN R(s2, r1.out \o <<"Created hard link">>)

\* do_cd with the assignment of the CWD moved before the test of the mode.
do_cd_AssignsBeforeModeTest(s, path) ==
    LET target_inode_num == get_path_inode(s, path)
    IN IF path = <<>> THEN R(s, <<>>)
       ELSE IF target_inode_num = -1
       THEN R(s, <<"cd: no such file or directory">>)
       ELSE IF read_inode(s, target_inode_num).mode # 1
       THEN R([s EXCEPT !.cwd = target_inode_num], <<"cd: not a directory">>)
       ELSE R([s EXCEPT !.cwd = target_inode_num], <<>>)

do_cd(s, path) ==
    LET target_inode_num == get_path_inode(s, path)
    IN IF path = <<>> THEN R(s, <<>>)
       ELSE IF target_inode_num = -1
       THEN R(s, <<"cd: no such file or directory">>)
       ELSE IF read_inode(s, target_inode_num).mode # 1
       THEN R(s, <<"cd: not a directory">>)
       ELSE R([s EXCEPT !.cwd = target_inode_num], <<>>)

\* The name under which the parent lists the child, "." and ".." apart.  An
\* inode number that is not in the table (-1 when ".." was not found) reads
\* as zeros from the blocks before the inode table: mode 0.
find_name_for_inode(s, parent_inode_num, child_inode_num) ==
    IF parent_inode_num \notin InodeNums THEN [rc |-> -1, name |-> 0]
    ELSE LET parent_inode == read_inode(s, parent_inode_num)
             hits == SelectSeq(VisibleEntries(s, parent_inode),
                        LAMBDA e : /\ e.inode_number = child_inode_num
                                   /\ e.name # Pack(<<".">>)
                                   /\ e.name # Pack(<<".", ".">>))
         IN IF parent_inode.mode # 1 \/ hits = <<>>
            THEN [rc |-> -1, name |-> 0]
            ELSE [rc |-> 0, name |-> hits[1].name]

\* The upward walk of do_pwd from current_inode with depth components
\* collected so far (components[1] is the deepest).
RECURSIVE PwdWalk(_, _, _)
PwdWalk(s, current_inode, components) ==
    IF current_inode = ROOT_INODE_NUM THEN [ok |-> TRUE, components |-> components]
    ELSE LET parent_inode == find_entry_in_dir(s, current_inode, <<".", ".">>)
             f == find_name_for_inode(s, parent_inode, current_inode)
         IN IF Len(components) >= MAX_PATH_DEPTH
            THEN [ok |-> FALSE, components |-> <<>>]
            ELSE IF f.rc # 0 THEN [ok |-> FALSE, components |-> <<>>]
            ELSE IF parent_inode = current_inode
            THEN [ok |-> TRUE, components |-> Append(components, f.name)]
            ELSE PwdWalk(s, parent_inode, Append(components, f.name))

\* "/" followed by the components from the last to the first, joined by "/".
RECURSIVE JoinReversed(_, _)
JoinReversed(components, i) ==
    IF i = 0 THEN <<>>
    ELSE Unpack(components[i])
            \o (IF i > 1 THEN <<"/">> ELSE <<>>)
            \o JoinReversed(components, i - 1)

\* do_pwd: the path it prints, or ok = FALSE when it prints one of its two
\* diagnostics, "/<path too deep>" and "/<error: fs inconsistent>".
do_pwd(s) ==
    IF s.cwd = ROOT_INODE_NUM THEN [ok |-> TRUE, path |-> <<"/">>]
    ELSE LET w == PwdWalk(s, s.cwd, <<>>)
         IN [ok |-> w.ok,
             path |-> <<"/">> \o JoinReversed(w.components, Len(w.components))]

\* do_ls prints and changes nothing: the lines it prints, as records.
do_ls(s, path) ==
    LET inode_num == get_path_inode(s, path)
    IN IF inode_num = -1
       THEN [out |-> <<"ls: cannot access: No such file or directory">>,
             lines |-> <<>>]
       ELSE LET inode == read_inode(s, inode_num)
                es == VisibleEntries(s, inode)
            IN IF inode.mode # 1
               THEN [out |-> <<>>,
                     lines |-> <<[type |-> "f", size |-> inode.size,
                                  name |-> Pack(basename(path))]>>]
               ELSE [out |-> <<"Contents of">>,
                     lines |-> [k \in DOMAIN es |->
                        LET entry_inode == read_inode(s, es[k].inode_number)
                        IN [type |-> IF entry_inode.mode = 1 THEN "d" ELSE "f",
                            size |-> entry_inode.size,
                            name |-> es[k].name]]]

\* do_df prints the number of set bits of each bitmap.
do_df(s) ==
    [used_inodes |->
        Cardinality({i \in 0 .. (num_inodes - 1) : get_bit(s.inode_bitmap, i)}),
     used_data_blocks |->
        Cardinality({i \in 0 .. (num_data_blocks - 1) :
                        get_bit(s.data_block_bitmap, i)})]

\* memset(buffer + offset, 0, bytes_to_write)
ZeroRange(buf, offset, bytes_to_write) ==
    [u \in Units |->
        IF u >= offset /\ u < offset + bytes_to_write THEN 0 ELSE buf[u]]

\* The while loop of do_append with the failure of alloc_data_block treated
\* as if the remaining bytes had been added.
RECURSIVE AppendBlocks_ForgetsRemainder(_, _, _, _)
AppendBlocks_ForgetsRemainder(s, inode, last_block_idx, bytes_to_add) ==
    IF bytes_to_add <= 0 \/ last_block_idx >= INODE_DIRECT_POINTERS
    THEN [st |-> s, inode |-> inode, bytes_to_add |-> bytes_to_add, out |-> <<>>]
    ELSE LET a == alloc_data_block(s)
         IN IF a.n = -1
            THEN [st |-> s, inode |-> inode, bytes_to_add |-> 0,
                  out |-> <<"Error: Out of data blocks.">>]
            ELSE LET bytes_to_write == IF bytes_to_add > BLOCK_SIZE
                                       THEN BLOCK_SIZE ELSE bytes_to_add
                 IN AppendBlocks_ForgetsRemainder(
                        write_block(a.st, a.n, ZeroBlock),
                        IF last_block_idx >= 0
                        THEN [inode EXCEPT !.direct_blocks[last_block_idx] = a.n]
                        ELSE inode,
                        last_block_idx + 1,
                        bytes_to_add - bytes_to_write)

\* The while loop of do_append.  The first pass of an append to an empty
\* file runs with last_block_idx = -1: direct_blocks[-1] is the last four
\* bytes of modification_time, which is assigned again after the loop, so
\* the block number stored there is lost.
RECURSIVE AppendBlocks(_, _, _, _)
AppendBlocks(s, inode, last_block_idx, bytes_to_add) ==
    IF bytes_to_add <= 0 \/ last_block_idx >= INODE_DIRECT_POINTERS
    THEN [st |-> s, inode |-> inode, bytes_to_add |-> bytes_to_add, out |-> <<>>]
    ELSE LET a == alloc_data_block(s)
         IN IF a.n = -1
            THEN [st |-> s, inode |-> inode, bytes_to_add |-> bytes_to_add,
                  out |-> <<"Error: Out of data blocks.">>]
            ELSE LET bytes_to_write == IF bytes_to_add > BLOCK_SIZE
                                       THEN BLOCK_SIZE ELSE bytes_to_add
                 IN AppendBlocks(write_block(a.st, a.n, ZeroBlock),
                                 IF last_block_idx >= 0
                                 THEN [inode EXCEPT !.direct_blocks[last_block_idx] = a.n]
                                 ELSE inode,
                                 last_block_idx + 1,
                                 bytes_to_add - bytes_to_write)

\* do_append from the read of the inode on, with the inode number and the
\* inode record it read.
AppendToInode(s, inode_num, inode, n_bytes) ==
    LET Fail(msg) == [st |-> s, out |-> <<msg>>, added |-> 0]
        original_size == inode.size
        new_size == original_size + n_bytes
        idx0 == IF original_size > 0
                THEN (original_size - 1) \div BLOCK_SIZE ELSE -1
        partial == original_size > 0 /\ original_size % BLOCK_SIZE # 0
        offset == original_size % BLOCK_SIZE
        space_in_block == BLOCK_SIZE - offset
        tail_bytes == IF n_bytes < space_in_block THEN n_bytes
                      ELSE space_in_block
    IN IF inode.mode # 0 THEN Fail("Error: Not a file.")
       ELSE IF new_size > INODE_DIRECT_POINTERS * BLOCK_SIZE
       THEN Fail("Error: Appending would exceed maximum file size.")
       ELSE LET last_block_num == inode.direct_blocks[idx0]
                \* With last_block_num = UNUSED_BLOCK, (int)-1, the block
                \* read and written back is the last block of the inode
                \* table, which holds none of the inodes kept here.
                s1 == IF partial /\ last_block_num # UNUSED_BLOCK
                      THEN write_block(s, last_block_num,
                              ZeroRange(read_block(s, last_block_num),
                                        offset, tail_bytes))
                      ELSE s
                w == AppendBlocks(s1, inode,
                                  IF partial THEN idx0 + 1 ELSE idx0,
                                  IF partial THEN n_bytes - tail_bytes
                                  ELSE n_bytes)
                s2 == write_inode(w.st, inode_num,
                         [w.inode EXCEPT !.size =
                             (new_size - w.bytes_to_add) % UintMod])
            IN [st |-> sync_bitmaps(s2),
                out |-> w.out \o <<"Appended">>,
                added |-> n_bytes - w.bytes_to_add]

\* do_append once get_path_inode has returned inode_num.
AppendAt(s, inode_num, n_bytes) ==
    LET Fail(msg) == [st |-> s, out |-> <<msg>>, added |-> 0]
    IN IF n_bytes <= 0 THEN Fail("Error: Must append a positive number of bytes.")
       ELSE IF inode_num = -1 THEN Fail("Error: File not found.")
       ELSE AppendToInode(s, inode_num, read_inode(s, inode_num), n_bytes)

\* The result carries added, the number the "Appended" line reports.
do_append(s, path, n_bytes) == AppendAt(s, get_path_inode(s, path), n_bytes)

do_truncate(s, path, n_bytes) ==
    LET inode_num == get_path_inode(s, path)
    IN IF n_bytes <= 0
       THEN R(s, <<"Error: Must shorten by a positive number of bytes.">>)
       ELSE IF inode_num = -1 THEN R(s, <<"Error: File not found.">>)
       ELSE LET inode == read_inode(s, inode_num)
                original_size == inode.size
                new_size == IF n_bytes >= original_size THEN 0
                            ELSE original_size - n_bytes
                last_block_idx_to_keep ==
                    IF new_size > 0 THEN (new_size - 1) \div BLOCK_SIZE ELSE -1
                Dropped(i) == i > last_block_idx_to_keep
                              /\ inode.direct_blocks[i] # UNUSED_BLOCK
                s1 == [s EXCEPT !.data_block_bitmap =
                         [b \in DOMAIN @ |->
                            IF \E i \in PtrIdx :
                                  Dropped(i) /\ inode.direct_blocks[i] = b
                            THEN FALSE ELSE @[b]]]
                inode2 == [inode EXCEPT
                             !.direct_blocks =
                                [i \in PtrIdx |->
                                    IF Dropped(i) THEN UNUSED_BLOCK ELSE @[i]],
                             !.size = new_size]
            IN IF inode.mode # 0 THEN R(s, <<"Error: Not a file.">>)
               ELSE R(sync_bitmaps(write_inode(s1, inode_num, inode2)),
                      <<IF new_size = 0 /\ original_size > 0
                        THEN "Truncated to 0 bytes." ELSE "Shortened">>)

\* The disk do_mkfs writes and the bitmaps main loads from it.
do_mkfs ==
    LET root_bits(num) == [n \in 0 .. (num - 1) |-> n = 0]
    IN [inode_bitmap      |-> root_bits(num_inodes),
        data_block_bitmap |-> root_bits(num_data_blocks),
        disk_inode_bitmap |-> root_bits(num_inodes),
        disk_data_bitmap  |-> root_bits(num_data_blocks),
        inodes |-> [n \in InodeNums |->
                      IF n = ROOT_INODE_NUM
                      THEN [mode |-> 1, size |-> 2 * SIZEOF_DirectoryEntry,
                            link_count |-> 2,
                            direct_blocks |-> [NoBlocks EXCEPT ![0] = 0]]
                      ELSE ZeroInode],
        blocks |-> [b \in BlockNums |->
                      IF b = 0 THEN NewDirBlock(ROOT_INODE_NUM, ROOT_INODE_NUM)
                      ELSE ZeroBlock],
        cwd    |-> ROOT_INODE_NUM]

\* ----------------------------------------------------------------- inputs
Paths == { <<"/">>, <<"/", "/">>, <<".">>, <<".", ".">>,
           <<"/", "a">>, <<"/", "b">>, <<"/", "a", "/", "b">>,
           <<"/", "a", "/", ".">>, <<"/", "a", "/", ".", ".">>, <<"b">> }

\* A host file of n bytes: 1, 2, .., n.
HostData(n) == [k \in 1 .. n |-> k]
FileSizes == {0, 1, BLOCK_SIZE, BLOCK_SIZE + 1, MaxFileSize, MaxFileSize + 1}
Counts == {1, BLOCK_SIZE}

\* ---------------------------------------------------------------- actions
Commit(s) ==
    /\ inode_bitmap' = s.inode_bitmap
    /\ data_block_bitmap' = s.data_block_bitmap
    /\ disk_inode_bitmap' = s.disk_inode_bitmap
    /\ disk_data_bitmap' = s.disk_data_bitmap
    /\ inodes' = s.inodes
    /\ blocks' = s.blocks
    /\ cwd' = s.cwd
    /\ UNCHANGED mkfs_images

ReadLine == ncmds < MaxCmds /\ ncmds' = ncmds + 1

CmdMkdir ==
    \E path \in Paths :
        ReadLine /\ Commit(do_mkdir(St, path).st) /\ UNCHANGED host_file

CmdRmdir ==
    \E path \in Paths :
        ReadLine /\ Commit(do_rmdir(St, path).st) /\ UNCHANGED host_file

CmdRm ==
    \E path \in Paths :
        ReadLine /\ Commit(do_rm(St, path).st) /\ UNCHANGED host_file

CmdLn ==
    \E target_path \in Paths, link_path \in Paths :
        ReadLine /\ Commit(do_ln(St, target_path, link_path).st)
                 /\ UNCHANGED host_file

CmdCpTo ==
    \E n \in FileSizes, path \in Paths :
        ReadLine /\ Commit(do_cp_to_vdisk(St, HostData(n), path).st)
                 /\ UNCHANGED host_file

CmdCpFrom ==
    \E path \in Paths :
        LET r == do_cp_from_vdisk(St, path)
        IN ReadLine /\ Commit(St)
                    /\ host_file' = IF r.written THEN r.data ELSE host_file

CmdAppend ==
    \E path \in Paths, n \in Counts :
        ReadLine /\ Commit(do_append(St, path, n).st) /\ UNCHANGED host_file

CmdTruncate ==
    \E path \in Paths, n \in Counts :
        ReadLine /\ Commit(do_truncate(St, path, n).st) /\ UNCHANGED host_file

CmdCd ==
    \E path \in Paths :
        ReadLine /\ Commit(do_cd(St, path).st) /\ UNCHANGED host_file

\* "exit" leaves the loop without a sync_bitmaps; the next run of main on the
\* same disk image loads both bitmaps from their disk blocks and starts in /.
CmdExit ==
    /\ ReadLine
    /\ Commit([St EXCEPT !.inode_bitmap = disk_inode_bitmap,
                         !.data_block_bitmap = disk_data_bitmap,
                         !.cwd = ROOT_INODE_NUM])
    /\ UNCHANGED host_file

Init ==
    /\ inode_bitmap = do_mkfs.inode_bitmap
    /\ data_block_bitmap = do_mkfs.data_block_bitmap
    /\ disk_inode_bitmap = do_mkfs.disk_inode_bitmap
    /\ disk_data_bitmap = do_mkfs.disk_data_bitmap
    /\ inodes = do_mkfs.inodes
    /\ blocks = do_mkfs.blocks
    /\ cwd = do_mkfs.cwd
    /\ host_file = <<>>
    /\ ncmds = 0
    /\ mkfs_images = <<>>

Next ==
    \/ CmdMkdir
    \/ CmdRmdir
    \/ CmdRm
    \/ CmdLn
    \/ CmdCpTo
    \/ CmdCpFrom
    \/ CmdAppend
    \/ CmdTruncate
    \/ CmdCd
    \/ CmdExit

Spec == Init /\ [][Next]_vars

\* ---------------------------------------------- longer runs, fewer inputs
\* The same program driven by longer command sequences over fewer
\* arguments: every behaviour of SpecDeep is a behaviour of the program.
MaxDeepCmds == 6

DeepPaths == { <<"/", "a">>, <<"/", "b">>, <<"/", "a", "/", ".">> }
DeepSizes == {1, BLOCK_SIZE + 1}
DeepCounts == {BLOCK_SIZE}

ReadLineDeep == ncmds < MaxDeepCmds /\ ncmds' = ncmds + 1

DeepMkdir ==
    \E path \in DeepPaths :
        ReadLineDeep /\ Commit(do_mkdir(St, path).st) /\ UNCHANGED host_file

DeepRmdir ==
    \E path \in DeepPaths :
        ReadLineDeep /\ Commit(do_rmdir(St, path).st) /\ UNCHANGED host_file

DeepRm ==
    \E path \in DeepPaths :
        ReadLineDeep /\ Commit(do_rm(St, path).st) /\ UNCHANGED host_file

DeepLn ==
    \E target_path \in DeepPaths, link_path \in DeepPaths :
        ReadLineDeep /\ Commit(do_ln(St, target_path, link_path).st)
                     /\ UNCHANGED host_file

DeepCpTo ==
    \E n \in DeepSizes, path \in DeepPaths :
        ReadLineDeep /\ Commit(do_cp_to_vdisk(St, HostData(n), path).st)
                     /\ UNCHANGED host_file

DeepAppend ==
    \E path \in DeepPaths, n \in DeepCounts :
        ReadLineDeep /\ Commit(do_append(St, path, n).st)
                     /\ UNCHANGED host_file

DeepTruncate ==
    \E path \in DeepPaths, n \in DeepCounts :
        ReadLineDeep /\ Commit(do_truncate(St, path, n).st)
                     /\ UNCHANGED host_file

DeepCd ==
    \E path \in DeepPaths :
        ReadLineDeep /\ Commit(do_cd(St, path).st) /\ UNCHANGED host_file

NextDeep ==
    \/ DeepMkdir
    \/ DeepRmdir
    \/ DeepRm
    \/ DeepLn
    \/ DeepCpTo
    \/ DeepAppend
    \/ DeepTruncate
    \/ DeepCd

SpecDeep == Init /\ [][NextDeep]_vars

\* -------------------------------- churn inside one directory, six commands
\* The command loop restricted to insertions into and removals from the
\* directory /a.
MaxDirCmds == 6
DirPaths == { <<"/", "a">>, <<"/", "a", "/", "b">>, <<"/", "a", "/", "c">> }
DirSizes == {0, 1}

ReadLineDir == ncmds < MaxDirCmds /\ ncmds' = ncmds + 1

DirMkdir ==
    \E path \in DirPaths :
        ReadLineDir /\ Commit(do_mkdir(St, path).st) /\ UNCHANGED host_file

DirRmdir ==
    \E path \in DirPaths :
        ReadLineDir /\ Commit(do_rmdir(St, path).st) /\ UNCHANGED host_file

DirRm ==
    \E path \in DirPaths :
        ReadLineDir /\ Commit(do_rm(St, path).st) /\ UNCHANGED host_file

DirCpTo ==
    \E path \in DirPaths, n \in DirSizes :
        /\ ReadLineDir
        /\ Commit(do_cp_to_vdisk(St, HostData(n), path).st)
        /\ UNCHANGED host_file

NextDir == DirMkdir \/ DirRmdir \/ DirRm \/ DirCpTo

SpecDir == Init /\ [][NextDir]_vars

\* ------------------------------------------------ the bytes do_mkfs writes
\* do_mkfs on its own, byte by byte where the bytes come from the stack.
\* Numbers are 4-byte units as in the structs; a name field is a sequence of
\* MAX_FILENAME_LEN + 1 bytes.
SUPERBLOCK_BLOCK == 0
INODE_BITMAP_BLOCK == 1
DATA_BITMAP_BLOCK == 2
INODE_TABLE_START_BLOCK == 3
MAX_INODES == num_inodes
MAX_DATA_BLOCKS == 2 * num_data_blocks
\* sizeof(Inode) in 4-byte units: mode with its padding, size, link_count,
\* the padding before the first time_t, two time_t of two units each, and
\* the direct pointers.
SIZEOF_Inode == 8 + INODE_DIRECT_POINTERS
\* the number of runs of do_mkfs that are compared
MaxRuns == 2

NameBytes == 1 .. (MAX_FILENAME_LEN + 1)

\* strcpy(dst, src): the characters of src and one NUL; the bytes of dst
\* after the NUL keep what they held.
strcpy(dst, src) ==
    [k \in DOMAIN dst |->
        IF k <= Len(src) THEN CharCode(src[k])
        ELSE IF k = Len(src) + 1 THEN 0
        ELSE dst[k]]

\* What the stack holds where do_mkfs places root_inode and entries[2]:
\* neither is initialised, so the bytes no assignment reaches are whatever
\* was there.
StackBytes == {0, 170}
Stacks == [root_inode : StackBytes, entries : StackBytes]

mkfs_image(size_bytes, now, stack) ==
    LET num_inode_blocks ==
            (MAX_INODES * SIZEOF_Inode + BLOCK_SIZE - 1) \div BLOCK_SIZE
        num_total_blocks == size_bytes \div BLOCK_SIZE
        data_blocks_start_block == INODE_TABLE_START_BLOCK + num_inode_blocks
        uninit_name == [k \in NameBytes |-> stack.entries]
    IN [superblock |->
            [total_size |-> size_bytes % UintMod,
             num_inodes |-> MAX_INODES,
             \* int - uint32_t is computed in uint32_t
             num_data_blocks |->
                 Min((num_total_blocks - data_blocks_start_block) % UintMod,
                     MAX_DATA_BLOCKS),
             inode_bitmap_block |-> INODE_BITMAP_BLOCK,
             data_bitmap_block |-> DATA_BITMAP_BLOCK,
             inode_table_start_block |-> INODE_TABLE_START_BLOCK,
             data_blocks_start_block |-> data_blocks_start_block],
        inode_bitmap |-> [n \in 0 .. (MAX_INODES - 1) |-> n = ROOT_INODE_NUM],
        data_block_bitmap |-> [b \in 0 .. (MAX_DATA_BLOCKS - 1) |-> b = 0],
        root_inode |->
            [mode |-> 1,
             padding_after_mode |-> stack.root_inode,
             size |-> 2 * SIZEOF_DirectoryEntry,
             link_count |-> 2,
             padding_after_link_count |-> stack.root_inode,
             creation_time |-> now,
             modification_time |-> now,
             direct_blocks |-> [NoBlocks EXCEPT ![0] = 0]],
        entries |->
            << [name |-> strcpy(uninit_name, <<".">>),
                inode_number |-> ROOT_INODE_NUM],
               [name |-> strcpy(uninit_name, <<".", ".">>),
                inode_number |-> ROOT_INODE_NUM] >>]

\* The disk sizes given to do_mkfs: one block, the metadata blocks and
\* nothing more, one below the MAX_DATA_BLOCKS cap, one above it.
DiskSizes ==
    LET meta == INODE_TABLE_START_BLOCK
                  + (MAX_INODES * SIZEOF_Inode + BLOCK_SIZE - 1) \div BLOCK_SIZE
    IN {BLOCK_SIZE,
        meta * BLOCK_SIZE,
        (meta + num_data_blocks) * BLOCK_SIZE,
        (meta + MAX_DATA_BLOCKS + 1) * BLOCK_SIZE}
Times == {1, 2}

\* One run of the program on a disk file that does not exist yet.
RunMkfs ==
    \E size_bytes \in DiskSizes, now \in Times, stack \in Stacks :
        /\ Len(mkfs_images) < MaxRuns
        /\ mkfs_images' = Append(mkfs_images, mkfs_image(size_bytes, now, stack))
        /\ UNCHANGED <<inode_bitmap, data_block_bitmap, disk_inode_bitmap,
                       disk_data_bitmap, inodes, blocks, cwd, host_file, ncmds>>

NextMkfs == RunMkfs

SpecMkfs == Init /\ [][NextMkfs]_vars

\* ------------------------------------------- file contents only, two names
\* The command loop restricted to cp-to, append and truncate on two names of
\* the root directory.
MaxFileCmds == 4
FileOpPaths == { <<"/", "a">>, <<"/", "b">> }

ReadLineFile == ncmds < MaxFileCmds /\ ncmds' = ncmds + 1

FileCpTo ==
    \E n \in FileSizes, path \in FileOpPaths :
        /\ ReadLineFile
        /\ Commit(do_cp_to_vdisk(St, HostData(n), path).st)
        /\ UNCHANGED host_file

FileAppend ==
    \E path \in FileOpPaths, n \in Counts :
        ReadLineFile /\ Commit(do_append(St, path, n).st)
                     /\ UNCHANGED host_file

FileTruncate ==
    \E path \in FileOpPaths, n \in Counts :
        ReadLineFile /\ Commit(do_truncate(St, path, n).st)
                     /\ UNCHANGED host_file

NextFile == FileCpTo \/ FileAppend \/ FileTruncate

SpecFile == Init /\ [][NextFile]_vars

\* ------------------------------------------------- the allocators alone
\* The four bitmap routines called one at a time, in any order, on the
\* bitmaps of a fresh disk: every pair of bitmaps is reached.
CallAllocInode ==
    /\ Commit(alloc_inode(St).st)
    /\ UNCHANGED <<host_file, ncmds>>

CallFreeInode ==
    \E n \in InodeNums :
        Commit(free_inode(St, n)) /\ UNCHANGED <<host_file, ncmds>>

CallAllocDataBlock ==
    /\ Commit(alloc_data_block(St).st)
    /\ UNCHANGED <<host_file, ncmds>>

CallFreeDataBlock ==
    \E b \in BlockNums :
        Commit(free_data_block(St, b)) /\ UNCHANGED <<host_file, ncmds>>

NextAlloc ==
    \/ CallAllocInode
    \/ CallFreeInode
    \/ CallAllocDataBlock
    \/ CallFreeDataBlock

SpecAlloc == Init /\ [][NextAlloc]_vars

\* ------------------------------------------------- what the claims speak of
IsLive(s, n) == get_bit(s.inode_bitmap, n)
IsLiveDir(s, n) == IsLive(s, n) /\ read_inode(s, n).mode = 1
IsLiveFile(s, n) == IsLive(s, n) /\ read_inode(s, n).mode = 0

\* The data blocks an inode lists in direct_blocks.
BlocksOf(s, n) ==
    {read_inode(s, n).direct_blocks[i] : i \in PtrIdx} \ {UNUSED_BLOCK}

\* The live slots (name[0] # NUL) of the data blocks of inode n, whatever its
\* size says: <<i, j>> is slot j of direct block i.
LiveSlots(s, n) ==
    {sl \in PtrIdx \X Slots :
        LET b == read_inode(s, n).direct_blocks[sl[1]]
        IN b # UNUSED_BLOCK /\ ~NameIsNul(EntryName(read_block(s, b), sl[2]))}

SlotName(s, n, sl) ==
    EntryName(read_block(s, read_inode(s, n).direct_blocks[sl[1]]), sl[2])
SlotInode(s, n, sl) ==
    EntryInode(read_block(s, read_inode(s, n).direct_blocks[sl[1]]), sl[2])

\* The inodes reachable from a set of inodes through the live slots of the
\* directories among them.
RECURSIVE ReachFrom(_, _)
ReachFrom(s, set) ==
    LET more == {m \in InodeNums :
                    \E d \in set : read_inode(s, d).mode = 1
                        /\ \E sl \in LiveSlots(s, d) : SlotInode(s, d, sl) = m}
    IN IF more \subseteq set THEN set ELSE ReachFrom(s, set \cup more)

Reachable(s) == ReachFrom(s, {ROOT_INODE_NUM})

\* The live slots of live directories that hold inode number n.
LinksTo(s, n) ==
    {e \in InodeNums \X (PtrIdx \X Slots) :
        IsLiveDir(s, e[1]) /\ e[2] \in LiveSlots(s, e[1])
        /\ SlotInode(s, e[1], e[2]) = n}

\* The children of directory d that are subdirectories.
Subdirs(s, d) ==
    {sl \in LiveSlots(s, d) :
        /\ SlotName(s, d, sl) \notin {Pack(<<".">>), Pack(<<".", ".">>)}
        /\ SlotInode(s, d, sl) \in InodeNums
        /\ IsLiveDir(s, SlotInode(s, d, sl))}

Printed(r, msg) == \E k \in DOMAIN r.out : r.out[k] = msg

Zeros(n) == [k \in 1 .. n |-> 0]

\* ----------------------------------------------------------------- claims
\* C1: a data-block bitmap bit is set if and only if the block is listed in
\* direct_blocks of some live inode (no leaked block, no referenced block
\* with its bit clear).
C1_BitmapMatchesDirectBlocks ==
    \A b \in BlockNums :
        get_bit(data_block_bitmap, b)
            <=> \E n \in InodeNums : IsLive(St, n) /\ b \in BlocksOf(St, n)

\* C2: every inode whose bitmap bit is set is reachable from the root through
\* live directory entries, and every inode number stored in a live directory
\* entry has its bitmap bit set.
C2_LiveInodesAreTheReachableOnes ==
    /\ \A n \in InodeNums : IsLive(St, n) => n \in Reachable(St)
    /\ \A d \in InodeNums : IsLiveDir(St, d) =>
          \A sl \in LiveSlots(St, d) :
              /\ SlotInode(St, d, sl) \in InodeNums
              /\ IsLive(St, SlotInode(St, d, sl))

\* C3: for every live file inode f, link_count(f) is the number of live
\* directory-entry slots of the filesystem whose inode_number is f.
C3_FileLinkCount ==
    \A f \in InodeNums :
        IsLiveFile(St, f) =>
            read_inode(St, f).link_count = Cardinality(LinksTo(St, f))

\* C4: for every live directory d, link_count(d) = 2 + the number of
\* subdirectories that are children of d.
C4_DirLinkCount ==
    \A d \in InodeNums :
        IsLiveDir(St, d) =>
            read_inode(St, d).link_count = 2 + Cardinality(Subdirs(St, d))

\* C5: for every live directory d, size(d) / sizeof(DirectoryEntry) is the
\* number of live slots in d's data blocks.
C5_DirSizeCountsLiveSlots ==
    \A d \in InodeNums :
        IsLiveDir(St, d) =>
            read_inode(St, d).size \div SIZEOF_DirectoryEntry
                = Cardinality(LiveSlots(St, d))

\* C6: a cp-to of a host byte sequence B of length L <= 12 x BLOCK_SIZE that
\* reports success, followed by cp-from of the same path, yields exactly B
\* (stated here for a cp-from that follows at once, from any state a
\* sequence of commands reaches).
C6_RoundTrip ==
    \A n \in FileSizes, path \in Paths :
        LET r == do_cp_to_vdisk(St, HostData(n), path)
            back == do_cp_from_vdisk(r.st, path)
        IN (n <= MaxFileSize /\ Printed(r, "Copied"))
              => (back.written /\ back.data = HostData(n))

\* C7: after an append of n > 0 bytes that succeeds in full on a file of size
\* size, cp-from yields size + n bytes: the bytes cp-from gave before,
\* followed by n zero bytes.
C7_AppendExtendsWithZeros ==
    \A path \in Paths, n \in Counts :
        LET before == do_cp_from_vdisk(St, path)
            r == do_append(St, path, n)
            after == do_cp_from_vdisk(r.st, path)
        IN (Printed(r, "Appended") /\ r.added = n)
              => /\ after.written
                 /\ Len(after.data)
                      = read_inode(St, get_path_inode(St, path)).size + n
                 /\ after.data = before.data \o Zeros(n)

\* C8: when mkdir cannot complete for lack of space (no free inode, no free
\* data block for the new directory or for a new block of the parent), the
\* parent has no new live entry, the parent's link_count is unchanged and
\* both bitmaps are as before the call.
C8_MkdirNoSpaceLeavesNothing ==
    \A path \in Paths :
        LET r == do_mkdir(St, path)
            parent == get_path_inode(St, dirname(path))
        IN (Printed(r, "Error: Out of inodes.")
             \/ Printed(r, "Error: Out of data blocks."))
              => /\ r.st.inode_bitmap = inode_bitmap
                 /\ r.st.data_block_bitmap = data_block_bitmap
                 /\ read_inode(r.st, parent).link_count
                      = read_inode(St, parent).link_count
                 /\ LiveSlots(r.st, parent) = LiveSlots(St, parent)

\* C9: when an allocation fails during cp-to (a data block for the file, or
\* a data block or slot needed to insert the leaf into the parent), both
\* bitmaps (in memory and on disk) and the inode table are as before the call
\* and no new name appears in the parent.
C9_CpToFailureRollsBack ==
    \A n \in FileSizes, path \in Paths :
        LET r == do_cp_to_vdisk(St, HostData(n), path)
            parent == get_path_inode(St, dirname(path))
        IN (Printed(r, "Error: Out of data blocks during copy. Cleaning up.")
             \/ Printed(r, "Error: Out of data blocks.")
             \/ Printed(r, "Error: Directory is full."))
              => /\ r.st.inode_bitmap = inode_bitmap
                 /\ r.st.data_block_bitmap = data_block_bitmap
                 /\ r.st.disk_inode_bitmap = r.st.inode_bitmap
                 /\ r.st.disk_data_bitmap = r.st.data_block_bitmap
                 /\ r.st.inodes = inodes
                 /\ LiveSlots(r.st, parent) = LiveSlots(St, parent)

\* C10: root cannot be removed: after any sequence of commands inode 0 is
\* still allocated, is still a directory, and its data block is still
\* allocated.
C10_RootStays ==
    /\ get_bit(inode_bitmap, ROOT_INODE_NUM)
    /\ read_inode(St, ROOT_INODE_NUM).mode = 1
    /\ read_inode(St, ROOT_INODE_NUM).direct_blocks[0] \in BlockNums
    /\ get_bit(data_block_bitmap, read_inode(St, ROOT_INODE_NUM).direct_blocks[0])

\* The lines by which a mutating command reports success.
SuccessLines ==
    {"Directory created", "Copied", "Removed", "Removed directory",
     "Created hard link", "Appended", "Truncated to 0 bytes.", "Shortened"}

Succeeded(r) == \E k \in DOMAIN r.out : r.out[k] \in SuccessLines

\* The bitmaps a process attaching to the image would load are the ones in
\* memory.
Synced(s) ==
    /\ s.disk_inode_bitmap = s.inode_bitmap
    /\ s.disk_data_bitmap = s.data_block_bitmap

\* C11: after every mutating command that reports success (mkdir, rmdir, rm,
\* ln, cp-to, append, truncate) the bitmaps stored on disk equal the
\* in-memory bitmaps.
C11_SuccessLeavesBitmapsOnDisk ==
    /\ \A path \in Paths :
          /\ Succeeded(do_mkdir(St, path)) => Synced(do_mkdir(St, path).st)
          /\ Succeeded(do_rmdir(St, path)) => Synced(do_rmdir(St, path).st)
          /\ Succeeded(do_rm(St, path)) => Synced(do_rm(St, path).st)
    /\ \A path \in Paths, n \in FileSizes :
          Succeeded(do_cp_to_vdisk(St, HostData(n), path))
              => Synced(do_cp_to_vdisk(St, HostData(n), path).st)
    /\ \A path \in Paths, n \in Counts :
          /\ Succeeded(do_append(St, path, n))
                => Synced(do_append(St, path, n).st)
          /\ Succeeded(do_truncate(St, path, n))
                => Synced(do_truncate(St, path, n).st)
    /\ \A target_path \in Paths, link_path \in Paths :
          Succeeded(do_ln(St, target_path, link_path))
              => Synced(do_ln(St, target_path, link_path).st)

\* C12: after cd operations that succeed, pwd returns a path P such that
\* cd / followed by cd P returns to the same CWD inode.
C12_PwdInvertsCd ==
    \A p1 \in Paths, p2 \in Paths :
        LET r1 == do_cd(St, p1)
            r2 == do_cd(r1.st, p2)
            w == do_pwd(r2.st)
            back == do_cd(do_cd(r2.st, <<"/">>).st, w.path)
        IN (r1.out = <<>> /\ r2.out = <<>>)
              => (w.ok /\ back.out = <<>> /\ back.st.cwd = r2.st.cwd)

\* The directory slot a path names: the inode of its parent and the name
\* stored there.
NameOf(s, path) ==
    <<get_path_inode(s, dirname(path)), StoredName(basename(path))>>

\* C13: rm of one name of a file whose link_count is k.  If k >= 2 the inode
\* and its data blocks stay allocated, link_count becomes k - 1 and every
\* other name still resolves to the same inode with the same size and
\* content; if k = 1 all its non-UNUSED direct blocks and its inode are
\* freed.
C13_RmDropsOneLink ==
    \A path \in Paths :
        LET r == do_rm(St, path)
            f == find_entry_in_dir(St, get_path_inode(St, dirname(path)),
                                   basename(path))
            k == read_inode(St, f).link_count
        IN (Printed(r, "Removed") /\ IsLive(St, f)) =>
            /\ k >= 2 =>
                 /\ IsLive(r.st, f)
                 /\ read_inode(r.st, f).link_count = k - 1
                 /\ BlocksOf(r.st, f) = BlocksOf(St, f)
                 /\ \A b \in BlocksOf(St, f) \cap BlockNums :
                       get_bit(r.st.data_block_bitmap, b)
                          = get_bit(data_block_bitmap, b)
                 /\ \A other \in Paths :
                       (get_path_inode(St, other) = f
                          /\ NameOf(St, other) # NameOf(St, path))
                         => /\ get_path_inode(r.st, other) = f
                            /\ read_inode(r.st, f).size = read_inode(St, f).size
                            /\ do_cp_from_vdisk(r.st, other)
                                  = do_cp_from_vdisk(St, other)
            /\ k = 1 =>
                 /\ ~IsLive(r.st, f)
                 /\ \A b \in BlocksOf(St, f) \cap BlockNums :
                       ~get_bit(r.st.data_block_bitmap, b)

\* The live slots of directory d other than `.` and `..`.
OtherSlots(s, d) ==
    {sl \in LiveSlots(s, d) :
        SlotName(s, d, sl) \notin {Pack(<<".">>), Pack(<<".", ".">>)}}

\* C14: rmdir succeeds on a directory whose only live slots are `.` and `..`
\* and refuses with "Directory not empty", changing nothing, a directory that
\* holds a live slot for any other file or subdirectory.
C14_RmdirOnlyWhenEmpty ==
    \A path \in Paths :
        LET d == get_path_inode(St, path)
            r == do_rmdir(St, path)
        IN (d # -1 /\ d # ROOT_INODE_NUM /\ IsLiveDir(St, d)) =>
              /\ OtherSlots(St, d) = {} => Printed(r, "Removed directory")
              /\ OtherSlots(St, d) # {} =>
                    (r.out = <<"Error: Directory not empty.">> /\ r.st = St)

\* C15: truncate(path, n) with n > 0 on a file of size s sets size to
\* max(0, s - n), frees and sets to UNUSED_BLOCK every direct block whose
\* index is greater than (new_size - 1) / BLOCK_SIZE (all blocks when
\* new_size = 0), and keeps every direct block at or below that index
\* allocated and unchanged.
C15_TruncateKeepsPrefix ==
    \A path \in Paths, n \in Counts :
        LET f == get_path_inode(St, path)
            r == do_truncate(St, path, n)
            old == read_inode(St, f)
            new == read_inode(r.st, f)
            new_size == IF old.size - n > 0 THEN old.size - n ELSE 0
            keep == IF new_size = 0 THEN -1 ELSE (new_size - 1) \div BLOCK_SIZE
        IN (f # -1 /\ IsLiveFile(St, f)) =>
              /\ new.size = new_size
              /\ \A i \in PtrIdx :
                    LET b == old.direct_blocks[i]
                    IN IF i > keep
                       THEN /\ new.direct_blocks[i] = UNUSED_BLOCK
                            /\ b \in BlockNums
                                  => ~get_bit(r.st.data_block_bitmap, b)
                       ELSE /\ new.direct_blocks[i] = b
                            /\ b \in BlockNums =>
                                  /\ get_bit(data_block_bitmap, b)
                                        => get_bit(r.st.data_block_bitmap, b)
                                  /\ read_block(r.st, b) = read_block(St, b)

\* The number of clear bits of the data-block bitmap.
FreeBlocks(s) == Cardinality({b \in BlockNums : ~get_bit(s.data_block_bitmap, b)})

\* The number of blocks a file of the given size occupies.
BlocksFor(size) == (size + BLOCK_SIZE - 1) \div BLOCK_SIZE

\* C16: append(path, n) with n > 0 and size + n <= INODE_DIRECT_POINTERS x
\* BLOCK_SIZE grows the file's size by exactly n when enough data blocks are
\* free; when allocation fails partway, size grows by the number of bytes
\* extended before the failure (the rest of the last block and one block for
\* every free data block), and that number is what is reported.
C16_AppendGrowsByWhatItReports ==
    \A path \in Paths, n \in Counts :
        LET f == get_path_inode(St, path)
            r == do_append(St, path, n)
            size == read_inode(St, f).size
            needed == BlocksFor(size + n) - BlocksFor(size)
            tail == IF size % BLOCK_SIZE = 0 THEN 0
                    ELSE Min(n, BLOCK_SIZE - (size % BLOCK_SIZE))
        IN (f # -1 /\ IsLiveFile(St, f) /\ size + n <= MaxFileSize) =>
              /\ Printed(r, "Appended")
              /\ read_inode(r.st, f).size = size + r.added
              /\ FreeBlocks(St) >= needed =>
                    (r.added = n /\ ~Printed(r, "Error: Out of data blocks."))
              /\ FreeBlocks(St) < needed =>
                    /\ r.added = tail + FreeBlocks(St) * BLOCK_SIZE
                    /\ Printed(r, "Error: Out of data blocks.")

C16_Witness ==
    \E path \in Paths, n \in Counts :
        LET f == get_path_inode(St, path)
            r == do_append(St, path, n)
        IN /\ f # -1 /\ IsLiveFile(St, f)
           /\ read_inode(St, f).size + n <= MaxFileSize
           /\ Printed(r, "Error: Out of data blocks.")
           /\ r.added > 0 /\ r.added < n
           /\ read_inode(r.st, f).size = read_inode(St, f).size + r.added

\* C17: a file never exceeds INODE_DIRECT_POINTERS direct blocks.  cp-to of
\* exactly INODE_DIRECT_POINTERS x BLOCK_SIZE bytes that reports success
\* exports back in full; cp-to of one byte more fails with "File is too
\* large"; append is refused whenever size + n exceeds the limit; each
\* refusal leaves the file system unchanged.
C17_SizeLimit ==
    /\ \A path \in Paths :
          LET r == do_cp_to_vdisk(St, HostData(MaxFileSize), path)
              back == do_cp_from_vdisk(r.st, path)
              over == do_cp_to_vdisk(St, HostData(MaxFileSize + 1), path)
          IN /\ Printed(r, "Copied") =>
                   (back.written /\ back.data = HostData(MaxFileSize))
             /\ over.out = <<"Error: File is too large for this simple filesystem.">>
             /\ over.st = St
    /\ \A path \in Paths, n \in Counts :
          LET f == get_path_inode(St, path)
              r == do_append(St, path, n)
          IN (f # -1 /\ IsLiveFile(St, f)
                /\ read_inode(St, f).size + n > MaxFileSize) =>
                /\ r.out = <<"Error: Appending would exceed maximum file size.">>
                /\ r.st = St

\* A disk image with the two timestamp fields of the root inode blanked.
WithoutTimes(image) ==
    [image EXCEPT !.root_inode.creation_time = 0,
                  !.root_inode.modification_time = 0]

\* C18: two mkfs runs with the same size produce the same disk except for the
\* two timestamp fields of the root inode: superblock, bitmaps, the rest of
\* the root inode record with its padding, and the whole name fields of the
\* `.` and `..` entries are determined by the size alone.
C18_MkfsDeterminedBySize ==
    \A i \in DOMAIN mkfs_images, j \in DOMAIN mkfs_images :
        mkfs_images[i].superblock.total_size = mkfs_images[j].superblock.total_size
            => WithoutTimes(mkfs_images[i]) = WithoutTimes(mkfs_images[j])

\* The names looked up.
LookupNames == { <<".">>, <<".", ".">>, <<"a">>, <<"b">>, <<"c">> }

\* C19: in any directory, after any sequence of insertions and removals,
\* lookup(name) returns the inode number of a live slot holding that name
\* whenever there is one, and not-found (-1) when there is none: no live
\* entry is invisible to lookup.
C19_LiveEntriesAreFound ==
    \A d \in InodeNums :
        IsLiveDir(St, d) =>
            \A name \in LookupNames :
                LET holders == {sl \in LiveSlots(St, d) :
                                   SlotName(St, d, sl) = Pack(name)}
                    r == find_entry_in_dir(St, d, name)
                IN IF holders = {} THEN r = -1
                   ELSE \E sl \in holders : r = SlotInode(St, d, sl)

\* C20: a successful rmdir frees every non-UNUSED direct block of the removed
\* directory, not only direct_blocks[0], and its inode.
C20_RmdirFreesEveryBlock ==
    \A path \in Paths :
        LET d == get_path_inode(St, path)
            r == do_rmdir(St, path)
        IN (d # -1 /\ IsLiveDir(St, d) /\ Printed(r, "Removed directory")) =>
              /\ ~IsLive(r.st, d)
              /\ \A b \in BlocksOf(St, d) \cap BlockNums :
                    ~get_bit(r.st.data_block_bitmap, b)

\* The live slots of directory d that hold the given name.
SlotsNamed(s, d, name) ==
    {sl \in LiveSlots(s, d) : SlotName(s, d, sl) = Pack(name)}

\* C21: after any sequence of commands, every live directory has a live `.`
\* entry pointing to itself and a live `..` entry pointing to its parent, a
\* live directory (root's `..` points to root), and the parent holds exactly
\* one entry naming that directory; rmdir given a path ending in `.` or `..`
\* does not break this.
C21_DotAndDotDot ==
    \A d \in InodeNums :
        IsLiveDir(St, d) =>
            /\ SlotsNamed(St, d, <<".">>) # {}
            /\ \A sl \in SlotsNamed(St, d, <<".">>) : SlotInode(St, d, sl) = d
            /\ SlotsNamed(St, d, <<".", ".">>) # {}
            /\ \A sl \in SlotsNamed(St, d, <<".", ".">>) :
                  LET p == SlotInode(St, d, sl)
                  IN /\ p \in InodeNums
                     /\ IsLiveDir(St, p)
                     /\ IF d = ROOT_INODE_NUM THEN p = ROOT_INODE_NUM
                        ELSE Cardinality({e \in OtherSlots(St, p) :
                                            SlotInode(St, p, e) = d}) = 1

\* C22: after any sequence of commands, no directory holds two live slots
\* with the same name: mkdir, cp-to and ln are refused with their "already
\* exists" line whenever the parent already holds a live slot with the leaf
\* name.
C22_NamesAreUnique ==
    /\ \A d \in InodeNums :
          IsLiveDir(St, d) =>
              \A sl1 \in LiveSlots(St, d), sl2 \in LiveSlots(St, d) :
                  SlotName(St, d, sl1) = SlotName(St, d, sl2) => sl1 = sl2
    /\ \A path \in Paths :
          LET parent == get_path_inode(St, dirname(path))
              held == /\ parent # -1
                      /\ IsLiveDir(St, parent)
                      /\ SlotsNamed(St, parent, basename(path)) # {}
          IN held =>
                /\ do_mkdir(St, path).out = <<"Error: Name already exists.">>
                /\ \A n \in FileSizes :
                      n <= MaxFileSize =>
                         do_cp_to_vdisk(St, HostData(n), path).out
                            = <<"Error: Name already exists.">>
                /\ \A target_path \in Paths :
                      LET t == get_path_inode(St, target_path)
                      IN (t # -1 /\ IsLiveFile(St, t)) =>
                            do_ln(St, target_path, path).out
                               = <<"Error: Link name already exists.">>

\* What C23 says a refused command leaves alone: the inode record of file f,
\* the contents of its blocks, and both bitmaps.
FileUntouched(s, t, f) ==
    /\ read_inode(t, f) = read_inode(s, f)
    /\ \A b \in BlocksOf(s, f) \cap BlockNums : read_block(t, b) = read_block(s, b)
    /\ t.inode_bitmap = s.inode_bitmap
    /\ t.data_block_bitmap = s.data_block_bitmap

\* C23: mkdir, cp-to and ln whose parent path resolves to a regular file (not
\* a directory) fail without changing anything: the file's size, link_count,
\* direct blocks and block contents are unchanged and no inode or data block
\* is allocated.
C23_FileAsParentIsRefused ==
    \A path \in Paths :
        LET parent == get_path_inode(St, dirname(path))
        IN (parent # -1 /\ IsLiveFile(St, parent)) =>
              /\ LET r == do_mkdir(St, path)
                 IN ~Succeeded(r) /\ FileUntouched(St, r.st, parent)
              /\ \A n \in FileSizes :
                    LET r == do_cp_to_vdisk(St, HostData(n), path)
                    IN ~Succeeded(r) /\ FileUntouched(St, r.st, parent)
              /\ \A target_path \in Paths :
                    LET r == do_ln(St, target_path, path)
                    IN ~Succeeded(r) /\ FileUntouched(St, r.st, parent)

\* C24: after any sequence of cp-to, append and truncate, for every live file
\* inode the non-UNUSED entries of direct_blocks are exactly the indices
\* 0 .. ceil(size / BLOCK_SIZE) - 1 (a prefix with no holes, none when
\* size = 0), and append never overwrites a direct_blocks slot that already
\* holds a block.
C24_DirectBlocksArePrefix ==
    /\ \A f \in InodeNums :
          IsLiveFile(St, f) =>
              \A i \in PtrIdx :
                  read_inode(St, f).direct_blocks[i] # UNUSED_BLOCK
                      <=> i < BlocksFor(read_inode(St, f).size)
    /\ \A path \in Paths, n \in Counts :
          LET f == get_path_inode(St, path)
              r == do_append(St, path, n)
          IN (f # -1 /\ IsLiveFile(St, f)) =>
                \A i \in PtrIdx :
                    read_inode(St, f).direct_blocks[i] # UNUSED_BLOCK =>
                        read_inode(r.st, f).direct_blocks[i]
                            = read_inode(St, f).direct_blocks[i]

\* C25: after any sequence of commands, the CWD inode number refers to an
\* allocated inode that is a directory reachable from the root; in particular
\* rmdir never frees the directory that is the current CWD while leaving CWD
\* pointing at it.
C25_CwdIsLiveDirectory ==
    /\ cwd \in InodeNums
    /\ IsLiveDir(St, cwd)
    /\ cwd \in Reachable(St)
    /\ \A path \in Paths :
          LET r == do_rmdir(St, path)
          IN Printed(r, "Removed directory") => IsLive(r.st, r.st.cwd)

\* The lines by which each command reports that it refuses its arguments
\* before it has written anything.
MkdirRefusals ==
    {"Error: Parent directory not found.", "Error: Name already exists."}
RmRefusals ==
    {"Error: Parent directory not found.", "Error: File or link not found.",
     "Error: Cannot remove directory with 'rm'. Use 'rmdir'."}
RmdirRefusals ==
    {"Error: Directory not found.", "Error: Not a directory.",
     "Error: Directory not empty."}
LnRefusals ==
    {"Error: Target does not exist.",
     "Error: Hard links to directories not supported.",
     "Error: Parent directory for link not found.",
     "Error: Link name already exists."}
AppendRefusals ==
    {"Error: Must append a positive number of bytes.", "Error: File not found.",
     "Error: Not a file."}
TruncateRefusals ==
    {"Error: Must shorten by a positive number of bytes.",
     "Error: File not found.", "Error: Not a file."}
CdRefusals == {"cd: no such file or directory", "cd: not a directory"}

\* atoi(arg2) of append and truncate, with the values that are refused.
AnyCounts == Counts \cup {0, -1}

Refused(r, lines) == \E k \in DOMAIN r.out : r.out[k] \in lines

\* C26: a command refused before it mutates anything (mkdir or ln or cp-to on
\* an existing name or missing parent, rm of a missing name or of a
\* directory, rmdir of a missing path or a non-directory or a non-empty
\* directory, ln with a missing or directory target, append or truncate with
\* n <= 0 or on a non-file, cd to a missing path or a file) leaves both
\* bitmaps, in memory and on disk, every inode, every block and the CWD
\* unchanged.
C26_RefusalChangesNothing ==
    /\ \A path \in Paths :
          /\ Refused(do_mkdir(St, path), MkdirRefusals)
                => do_mkdir(St, path).st = St
          /\ Refused(do_rm(St, path), RmRefusals) => do_rm(St, path).st = St
          /\ Refused(do_rmdir(St, path), RmdirRefusals)
                => do_rmdir(St, path).st = St
          /\ Refused(do_cd(St, path), CdRefusals) => do_cd(St, path).st = St
    /\ \A path \in Paths, n \in FileSizes :
          Refused(do_cp_to_vdisk(St, HostData(n), path), MkdirRefusals)
              => do_cp_to_vdisk(St, HostData(n), path).st = St
    /\ \A target_path \in Paths, link_path \in Paths :
          Refused(do_ln(St, target_path, link_path), LnRefusals)
              => do_ln(St, target_path, link_path).st = St
    /\ \A path \in Paths, n \in AnyCounts :
          /\ Refused(do_append(St, path, n), AppendRefusals)
                => do_append(St, path, n).st = St
          /\ Refused(do_truncate(St, path, n), TruncateRefusals)
                => do_truncate(St, path, n).st = St

\* A state with a file and a non-empty directory in which commands of every
\* kind are refused, each for a reason of its own.
C26_Witness ==
    /\ \E path \in Paths :
          Printed(do_mkdir(St, path), "Error: Name already exists.")
    /\ \E path \in Paths :
          Printed(do_mkdir(St, path), "Error: Parent directory not found.")
    /\ \E path \in Paths :
          Printed(do_rm(St, path),
                  "Error: Cannot remove directory with 'rm'. Use 'rmdir'.")
    /\ \E path \in Paths :
          Printed(do_rmdir(St, path), "Error: Directory not empty.")
    /\ \E path \in Paths :
          Printed(do_rmdir(St, path), "Error: Not a directory.")
    /\ \E path \in Paths : Printed(do_cd(St, path), "cd: not a directory")
    /\ \E target_path \in Paths, link_path \in Paths :
          Printed(do_ln(St, target_path, link_path),
                  "Error: Link name already exists.")
    /\ \E path \in Paths, n \in AnyCounts :
          Printed(do_append(St, path, n), "Error: Not a file.")
    /\ \E path \in Paths :
          Printed(do_truncate(St, path, 0),
                  "Error: Must shorten by a positive number of bytes.")
    /\ \E path \in Paths :
          Printed(do_cp_to_vdisk(St, HostData(1), path),
                  "Error: Name already exists.")

\* C27: for every size accepted by mkfs, with 32-bit unsigned superblock
\* fields, num_data_blocks equals min(MAX_DATA_BLOCKS, total_blocks -
\* data_start), so data_start + num_data_blocks never exceeds the number of
\* blocks in the backing store, including sizes smaller than data_start + 1
\* blocks where total_blocks - data_start is not positive.
C27_DataRegionFitsDisk ==
    \A i \in DOMAIN mkfs_images :
        LET superblock == mkfs_images[i].superblock
            total_blocks == superblock.total_size \div BLOCK_SIZE
        IN /\ superblock.num_data_blocks
                 = Min(MAX_DATA_BLOCKS,
                       total_blocks - superblock.data_blocks_start_block)
           /\ superblock.data_blocks_start_block + superblock.num_data_blocks
                 <= total_blocks

\* What C28 says of one allocation on a bitmap of num bits: n is the index
\* returned and after the bitmap left.
FirstFit(bitmap, num, n, after) ==
    IF \A i \in 0 .. (num - 1) : get_bit(bitmap, i)
    THEN n = -1 /\ after = bitmap
    ELSE /\ n \in 0 .. (num - 1)
         /\ ~get_bit(bitmap, n)
         /\ \A k \in 0 .. (n - 1) : get_bit(bitmap, k)
         /\ get_bit(after, n)
         /\ \A k \in (0 .. (num - 1)) \ {n} : get_bit(after, k) = get_bit(bitmap, k)

\* What C28 says of freeing index n.
ClearsOnly(bitmap, num, n, after) ==
    /\ ~get_bit(after, n)
    /\ \A k \in (0 .. (num - 1)) \ {n} : get_bit(after, k) = get_bit(bitmap, k)
    /\ ~get_bit(bitmap, n) => after = bitmap

\* C28: allocation is first-fit: alloc_inode and alloc_data_block return the
\* lowest index in 0..num-1 whose bit is clear and set that bit, return -1
\* exactly when every bit in that range is set, and change no other bit (nor
\* the other bitmap, nor anything on the disk); free clears only the given
\* bit and freeing an already-free index changes nothing.
C28_FirstFitAllocation ==
    /\ LET a == alloc_inode(St)
       IN /\ FirstFit(inode_bitmap, num_inodes, a.n, a.st.inode_bitmap)
          /\ a.st = [St EXCEPT !.inode_bitmap = a.st.inode_bitmap]
    /\ LET a == alloc_data_block(St)
       IN /\ FirstFit(data_block_bitmap, num_data_blocks, a.n,
                      a.st.data_block_bitmap)
          /\ a.st = [St EXCEPT !.data_block_bitmap = a.st.data_block_bitmap]
    /\ \A n \in InodeNums :
          LET t == free_inode(St, n)
          IN /\ ClearsOnly(inode_bitmap, num_inodes, n, t.inode_bitmap)
             /\ t = [St EXCEPT !.inode_bitmap = t.inode_bitmap]
    /\ \A b \in BlockNums :
          LET t == free_data_block(St, b)
          IN /\ ClearsOnly(data_block_bitmap, num_data_blocks, b,
                           t.data_block_bitmap)
             /\ t = [St EXCEPT !.data_block_bitmap = t.data_block_bitmap]

\* The inode bitmap has a clear bit below a set one and alloc_inode returns
\* the clear one; the data-block bitmap is full and alloc_data_block returns
\* -1.
C28_Witness ==
    /\ \E i \in InodeNums, j \in InodeNums :
          /\ i < j
          /\ ~get_bit(inode_bitmap, i)
          /\ get_bit(inode_bitmap, j)
          /\ \E k \in InodeNums : k > j /\ ~get_bit(inode_bitmap, k)
          /\ alloc_inode(St).n = i
    /\ \A b \in BlockNums : get_bit(data_block_bitmap, b)
    /\ alloc_data_block(St).n = -1

====
